---- MODULE Spec2Model ----
(***************************************************************************)
(* A model of dashboard_location_mapper (src/src/main.rs): one run of      *)
(* main(), which reads threat_sources.json, resolves every source IP in    *)
(* the GeoLite2 city database, sums the counts per formatted (lat, lon)    *)
(* key in a HashMap and writes the groups to locations.csv.                *)
(*                                                                         *)
(* Representation.                                                         *)
(*  - Text is TLC text: a CSV field is the string the program writes.      *)
(*  - A u32 is a pair <<hi, lo>> of 16-bit limbs (value hi*2^16 + lo), so  *)
(*    that the full 32-bit width is kept with small integers.  An exact    *)
(*    (unbounded) sum is a pair whose hi limb is not reduced.              *)
(*  - An f64 coordinate is an integer number of 2^-19 degrees; every such  *)
(*    value below 2^33 is an f64, and "{:.5}" of it is computed exactly    *)
(*    (round half to even on the exact value, sign of the value kept).     *)
(*  - Option<T> is [some |-> FALSE] or [some |-> TRUE, val |-> v].         *)
(***************************************************************************)
EXTENDS Integers, Sequences, FiniteSets, TLC

VARIABLES doc, file, pc, err, threat_sources, i, locations, wtr, run, prev

vars == <<doc, file, pc, err, threat_sources, i, locations, wtr, run, prev>>

\* ------------------------------------------------------------------ bounds

\* Longest Count array and longest Source array of an input document.
MaxLen == 2

\* ------------------------------------------------------------ Option, u32

None == [some |-> FALSE]

Some(v) == [some |-> TRUE, val |-> v]

\* One limb of a u32: 2^16.
Limb == 65536

U32Max == <<Limb - 1, Limb - 1>>

\* a + b without reduction: the mathematical sum, hi limb unbounded.
ExactAdd(a, b) ==
  LET lo == a[2] + b[2]
  IN  <<a[1] + b[1] + (lo \div Limb), lo % Limb>>

\* Whether a + b leaves the range of u32.
AddOverflows(a, b) == ExactAdd(a, b)[1] >= Limb

\* u32 addition in a build without overflow checks: modulo 2^32.
WrappingAdd(a, b) ==
  LET s == ExactAdd(a, b)
  IN  <<s[1] % Limb, s[2]>>

Digit(d) ==
  CASE d = 0 -> "0" [] d = 1 -> "1" [] d = 2 -> "2" [] d = 3 -> "3"
    [] d = 4 -> "4" [] d = 5 -> "5" [] d = 6 -> "6" [] d = 7 -> "7"
    [] d = 8 -> "8" [] d = 9 -> "9"

RECURSIVE NatToString(_)
NatToString(n) ==
  IF n < 10 THEN Digit(n) ELSE NatToString(n \div 10) \o Digit(n % 10)

\* u32::to_string: the decimal digits, no sign, no leading zero.
U32ToString(n) ==
  LET qh == n[1] \div 10
      t  == (n[1] % 10) * Limb + n[2]
      q  == qh * Limb + (t \div 10)
  IN  IF q = 0 THEN Digit(t % 10) ELSE NatToString(q) \o Digit(t % 10)

\* ------------------------------------------------------- format!("{:.5}")

\* Coordinates are counted in units of 1/Scale degree (2^-19).
Scale == 524288

\* n zero-padded to exactly 5 digits.
Pad5(n) ==
  LET s == NatToString(n)
  IN  CASE Len(s) = 1 -> "0000" \o s
        [] Len(s) = 2 -> "000" \o s
        [] Len(s) = 3 -> "00" \o s
        [] Len(s) = 4 -> "0" \o s
        [] OTHER -> s

\* num / den rounded to the nearest integer, ties to the even one.
RoundHalfEven(num, den) ==
  LET q == num \div den
      r == num % den
  IN  IF 2 * r > den \/ (2 * r = den /\ q % 2 = 1) THEN q + 1 ELSE q

\* format!("{x:.5}") of the f64 m / Scale: the exact value rounded to five
\* decimals, a leading "-" whenever the value is negative.
\* frac * 10^5 / 2^19 = frac * 3125 / 2^14.
Format5(m) ==
  LET a     == IF m < 0 THEN -m ELSE m
      whole == a \div Scale
      f     == RoundHalfEven((a % Scale) * 3125, 16384)
      w     == IF f = 100000 THEN whole + 1 ELSE whole
      d     == IF f = 100000 THEN 0 ELSE f
  IN  (IF m < 0 THEN "-" ELSE "") \o NatToString(w) \o "." \o Pad5(d)

\* ------------------------------------------------- the geolocation database

\* geoip2/city.mmdb, as a stub: one address per shape of lookup result the
\* resolver distinguishes.  A run reads the database only through the
\* results of the addresses in Source, and equal addresses give equal
\* results, so every sequence of results a database can give for a Source
\* array of the model is given by this one for some Source array.
Db ==
  [ip \in {"198.51.100.1", "198.51.100.2", "198.51.100.3", "198.51.100.4",
           "198.51.100.5", "8.8.8.8", "8.8.4.4", "1.1.1.1", "2001:db8::1"} |->
    CASE ip = "198.51.100.1" ->
           [city |-> None,
            country |-> Some([names |-> Some([en |-> "United States"])]),
            location |-> Some([latitude |-> Some(19611512),
                               longitude |-> Some(-64004266)])]
      [] ip = "198.51.100.2" ->
           [city |-> Some([names |-> Some([en |-> "Mountain View"])]),
            country |-> Some([names |-> Some([de |-> "Vereinigte Staaten"])]),
            location |-> Some([latitude |-> Some(19611512),
                               longitude |-> Some(-64004266)])]
      [] ip = "198.51.100.3" ->
           [city |-> Some([names |-> Some([en |-> "Mountain View"])]),
            country |-> Some([names |-> Some([en |-> "United States"])]),
            location |-> None]
      [] ip = "198.51.100.4" ->
           [city |-> Some([names |-> Some([en |-> "Mountain View"])]),
            country |-> Some([names |-> Some([en |-> "United States"])]),
            location |-> Some([latitude |-> Some(19611512),
                               longitude |-> None])]
      [] ip = "198.51.100.5" ->
           [city |-> Some([names |-> Some([en |-> "Mountain View"])]),
            country |-> Some([names |-> Some([en |-> "United States"])]),
            location |-> Some([latitude |-> None,
                               longitude |-> Some(-64004266)])]
      \* 37.40599..., -122.07845...
      [] ip = "8.8.8.8" ->
           [city |-> Some([names |-> Some([en |-> "Mountain View"])]),
            country |-> Some([names |-> Some([en |-> "United States"])]),
            location |-> Some([latitude |-> Some(19611512),
                               longitude |-> Some(-64004266)])]
      \* the same place up to the 5th decimal, under another name
      [] ip = "8.8.4.4" ->
           [city |-> Some([names |-> Some([en |-> "Sunnyvale"])]),
            country |-> Some([names |-> Some([en |-> "USA"])]),
            location |-> Some([latitude |-> Some(19611514),
                               longitude |-> Some(-64004266)])]
      \* one unit further north: across the rounding boundary
      [] ip = "1.1.1.1" ->
           [city |-> Some([names |-> Some([en |-> "Palo Alto"])]),
            country |-> Some([names |-> Some([en |-> "United States"])]),
            location |-> Some([latitude |-> Some(19611515),
                               longitude |-> Some(-64004266)])]
      \* -2^-19 degrees (rounds to minus zero) and 1/64 degree (a tie)
      [] ip = "2001:db8::1" ->
           [city |-> Some([names |-> Some([en |-> "Null Island"])]),
            country |-> Some([names |-> Some([en |-> "Atlantis"])]),
            location |-> Some([latitude |-> Some(-1),
                               longitude |-> Some(8192)])]]

\* The strings of the model that are IPv4 or IPv6 addresses.
IpStrings == DOMAIN Db \cup {"192.0.2.1"}

\* The strings a Source array is drawn from.
SourceStrings == IpStrings \cup {"not-an-ip"}

\* ip_str.parse::<IpAddr>()
ParseIp(s) == IF s \in IpStrings THEN Some(s) ELSE None

\* reader.lookup::<geoip2::City>(ip): Err for an address the database
\* does not hold.
Lookup(ip) == IF ip \in DOMAIN Db THEN Some(Db[ip]) ELSE None

\* n.get("en").copied()
GetEn(n) == IF "en" \in DOMAIN n THEN Some(n["en"]) ELSE None

\* x.and_then(|c| c.names).and_then(|n| n.get("en").copied())
EnName(x) ==
  IF ~x.some THEN None
  ELSE IF ~x.val.names.some THEN None
  ELSE GetEn(x.val.names.val)

\* The key of a location: both coordinates formatted to 5 decimals.
LocationKey(lat, lon) == [lat |-> Format5(lat), lon |-> Format5(lon)]

\* A resolver that takes a record without a country name, the name empty.
ResolveDefaultCountry(ip_str) ==
  LET ip == ParseIp(ip_str)
  IN  IF ~ip.some THEN None
      ELSE LET city == Lookup(ip.val)
           IN  IF ~city.some THEN None
               ELSE LET city_name    == EnName(city.val.city)
                        country_name == EnName(city.val.country)
                        location     == city.val.location
                    IN  IF ~city_name.some THEN None
                        ELSE IF ~location.some THEN None
                        ELSE IF ~(location.val.latitude.some
                                  /\ location.val.longitude.some) THEN None
                        ELSE Some([key |-> LocationKey(location.val.latitude.val,
                                                       location.val.longitude.val),
                                   city_name |-> city_name.val,
                                   country_name |->
                                     IF country_name.some
                                     THEN country_name.val ELSE ""])

\* The nest of `if let` around the aggregation: Some of the record's
\* key and names when every one of them matches, None when any fails.
Resolve(ip_str) ==
  LET ip == ParseIp(ip_str)
  IN  IF ~ip.some THEN None
      ELSE LET city == Lookup(ip.val)
           IN  IF ~city.some THEN None
               ELSE LET city_name    == EnName(city.val.city)
                        country_name == EnName(city.val.country)
                        location     == city.val.location
                    IN  IF ~city_name.some THEN None
                        ELSE IF ~country_name.some THEN None
                        ELSE IF ~location.some THEN None
                        ELSE IF ~(location.val.latitude.some
                                  /\ location.val.longitude.some) THEN None
                        ELSE Some([key |-> LocationKey(location.val.latitude.val,
                                                       location.val.longitude.val),
                                   city_name |-> city_name.val,
                                   country_name |-> country_name.val])

\* ----------------------------------------------------------------- inputs

\* The counts an input document may hold.
CountVals == {<<0, 1>>, <<0, 2>>, U32Max}

SeqsUpTo(S, n) == UNION {[1..k -> S] : k \in 0..n}

\* threat_sources.json: no file, a file that is not JSON, JSON without a
\* "Threat Sources" member, a member of another shape (no Count array, a
\* negative count, a Source element that is no string), or a well-formed
\* section.  Nothing ties the lengths of its two arrays to each other.
Docs ==
  {[kind |-> k] : k \in {"missing", "badjson", "nosection", "badstruct"}}
  \cup {[kind |-> "ok", Count |-> c, Source |-> s] :
          c \in SeqsUpTo(CountVals, MaxLen),
          s \in SeqsUpTo(SourceStrings, MaxLen)}

\* A row a former run, or anything else, left in locations.csv.
StaleRow == <<"Old Town", "Old Country", "7", "1.00000", "2.00000">>

NoFile == [exists |-> FALSE, rows |-> <<>>]

NoWriter == [open |-> FALSE, buf |-> <<>>]

NoSources == [Count |-> <<>>, Source |-> <<>>]

NoLocations == [k \in {} |-> 0]

Init ==
  /\ doc \in Docs
  /\ file \in {NoFile, [exists |-> TRUE, rows |-> <<StaleRow>>]}
  /\ pc = "read_input"
  /\ err = "none"
  /\ threat_sources = NoSources
  /\ i = 0
  /\ locations = NoLocations
  /\ wtr = NoWriter
  /\ run = 1
  /\ prev = [pc |-> "none", rows |-> <<>>]

\* ----------------------------------------------------------------- loader

\* A loader that also rejects arrays of different lengths.
LoadErrorStrict(d) ==
  CASE d.kind = "missing"   -> "open threat_sources.json"
    [] d.kind = "badjson"   -> "parse json"
    [] d.kind = "ok" /\ Len(d.Count) = Len(d.Source) -> "none"
    [] OTHER                -> "deserialize ThreatSources"

\* Lines 60-62: File::open, serde_json::from_reader, then from_value of
\* json["Threat Sources"] (Value::Null when the member is missing).
LoadError(d) ==
  CASE d.kind = "missing"   -> "open threat_sources.json"
    [] d.kind = "badjson"   -> "parse json"
    [] d.kind = "nosection" -> "deserialize ThreatSources"
    [] d.kind = "badstruct" -> "deserialize ThreatSources"
    [] OTHER                -> "none"

ReadInputOk ==
  /\ pc = "read_input"
  /\ LoadError(doc) = "none"
  /\ threat_sources' = [Count |-> doc.Count, Source |-> doc.Source]
  /\ pc' = "open_db"
  /\ UNCHANGED <<doc, file, err, i, locations, wtr, run, prev>>

\* The output file created before the input is read.
ReadInputErrAfterCreate ==
  /\ pc = "read_input"
  /\ LoadError(doc) # "none"
  /\ err' = LoadError(doc)
  /\ pc' = "failed"
  /\ file' = [exists |-> TRUE, rows |-> <<>>]
  /\ UNCHANGED <<doc, threat_sources, i, locations, wtr, run, prev>>

ReadInputErr ==
  /\ pc = "read_input"
  /\ LoadError(doc) # "none"
  /\ err' = LoadError(doc)
  /\ pc' = "failed"
  /\ UNCHANGED <<doc, file, threat_sources, i, locations, wtr, run, prev>>

\* Line 65: the database file opens, or it does not.
OpenDbOk ==
  /\ pc = "open_db"
  /\ pc' = "create_csv"
  /\ UNCHANGED <<doc, file, err, threat_sources, i, locations, wtr, run, prev>>

OpenDbErr ==
  /\ pc = "open_db"
  /\ err' = "open geoip2/city.mmdb"
  /\ pc' = "failed"
  /\ UNCHANGED <<doc, file, threat_sources, i, locations, wtr, run, prev>>

\* ----------------------------------------------------------------- writer

Header == <<"City Name", "Country Name", "Count", "Lat", "Lon">>

\* The record written for one entry of the map.
Row(key, data) ==
  <<data.city_name, data.country_name, U32ToString(data.total_count),
    key.lat, key.lon>>

\* locations.csv opened for append: its former rows stay.
CreateCsvAppend ==
  /\ pc = "create_csv"
  /\ file' = [exists |-> TRUE, rows |-> file.rows]
  /\ wtr' = [open |-> TRUE, buf |-> <<Header>>]
  /\ locations' = NoLocations
  /\ i' = 0
  /\ pc' = "loop"
  /\ UNCHANGED <<doc, err, threat_sources, run, prev>>

\* The writer created without the header record.
CreateCsvNoHeader ==
  /\ pc = "create_csv"
  /\ file' = [exists |-> TRUE, rows |-> <<>>]
  /\ wtr' = [open |-> TRUE, buf |-> <<>>]
  /\ locations' = NoLocations
  /\ i' = 0
  /\ pc' = "loop"
  /\ UNCHANGED <<doc, err, threat_sources, run, prev>>

\* Lines 68-69: Writer::from_path creates or truncates locations.csv; the
\* header goes to the writer's buffer.
CreateCsvOk ==
  /\ pc = "create_csv"
  /\ file' = [exists |-> TRUE, rows |-> <<>>]
  /\ wtr' = [open |-> TRUE, buf |-> <<Header>>]
  /\ locations' = NoLocations
  /\ i' = 0
  /\ pc' = "loop"
  /\ UNCHANGED <<doc, err, threat_sources, run, prev>>

CreateCsvErr ==
  /\ pc = "create_csv"
  /\ err' = "create locations.csv"
  /\ pc' = "failed"
  /\ UNCHANGED <<doc, file, threat_sources, i, locations, wtr, run, prev>>

\* Writer::flush, also run by Writer's Drop: the buffer goes to the file.
Flushed(f, w) == [f EXCEPT !.rows = @ \o w.buf]

\* ------------------------------------------------------------- aggregator

\* total_count.saturating_add(count)
AndModifySaturating(e, count) ==
  [e EXCEPT !.total_count =
     IF AddOverflows(@, count) THEN U32Max ELSE WrappingAdd(@, count)]

\* .and_modify(|e| e.total_count += count), overflow checks off.
AndModify(e, count) == [e EXCEPT !.total_count = WrappingAdd(@, count)]

\* .or_insert_with(|| CityData { .. })
OrInsertWith(r, count) ==
  [city_name |-> r.city_name, country_name |-> r.country_name,
   total_count |-> count]

\* locations.insert(key, ..): the last record's names replace the first's.
EntryLastWriter(locs, r, count) ==
  IF r.key \in DOMAIN locs
  THEN [locs EXCEPT ![r.key] =
          OrInsertWith(r, AndModify(@, count).total_count)]
  ELSE locs @@ (r.key :> OrInsertWith(r, count))

\* locations.entry(key).and_modify(..).or_insert_with(..)
Entry(locs, r, count) ==
  IF r.key \in DOMAIN locs
  THEN [locs EXCEPT ![r.key] = AndModify(@, count)]
  ELSE locs @@ (r.key :> OrInsertWith(r, count))

\* The record the loop is at (enumerate counts from 0, Seq from 1).
HasNext == i < Len(threat_sources.Source)

Current == Resolve(threat_sources.Source[i + 1])

\* threat_sources.Count[i] is inside the array.
InBounds == i < Len(threat_sources.Count)

\* The count at the position among the resolved records only.
CurrentCountOfResolved ==
  threat_sources.Count[
    Cardinality({j \in 1..i : Resolve(threat_sources.Source[j]).some}) + 1]

CurrentCount == threat_sources.Count[i + 1]

\* `+=` leaves u32 for the entry the current record maps to.
Overflowing ==
  /\ Current.val.key \in DOMAIN locations
  /\ AddOverflows(locations[Current.val.key].total_count, CurrentCount)

\* Some `if let` of lines 76-89 does not match: on to the next record.
SkipRecord ==
  /\ pc = "loop"
  /\ HasNext
  /\ ~Current.some
  /\ i' = i + 1
  /\ UNCHANGED <<doc, file, pc, err, threat_sources, locations, wtr, run, prev>>

\* Lines 92-105, no overflow.
AggregateRecord ==
  /\ pc = "loop"
  /\ HasNext
  /\ Current.some
  /\ InBounds
  /\ ~Overflowing
  /\ locations' = Entry(locations, Current.val, CurrentCount)
  /\ i' = i + 1
  /\ UNCHANGED <<doc, file, pc, err, threat_sources, wtr, run, prev>>

\* Lines 92-105, the sum passes 2^32 - 1 in a build without overflow
\* checks (the release profile): it wraps.
AggregateWrapping ==
  /\ pc = "loop"
  /\ HasNext
  /\ Current.some
  /\ InBounds
  /\ Overflowing
  /\ locations' = Entry(locations, Current.val, CurrentCount)
  /\ i' = i + 1
  /\ UNCHANGED <<doc, file, pc, err, threat_sources, wtr, run, prev>>

\* A panic ends the run.  When it unwinds, Writer's Drop flushes the
\* buffer; when the build aborts on panic, or that flush fails, it does not.
Panic(msg) ==
  /\ err' = msg
  /\ pc' = "panicked"
  /\ \E flushes \in BOOLEAN :
       /\ file' = IF flushes THEN Flushed(file, wtr) ELSE file
       /\ wtr' = NoWriter
  /\ UNCHANGED <<doc, threat_sources, i, locations, run, prev>>

\* Line 100 in a build with overflow checks (the dev profile).
PanicOverflow ==
  /\ pc = "loop"
  /\ HasNext
  /\ Current.some
  /\ InBounds
  /\ Overflowing
  /\ Panic("attempt to add with overflow")

\* Line 96: Count is shorter than Source and the record resolved.
PanicIndex ==
  /\ pc = "loop"
  /\ HasNext
  /\ Current.some
  /\ ~InBounds
  /\ Panic("index out of bounds")

\* The loop left before the last record.
EndLoopEarly ==
  /\ pc = "loop"
  /\ pc' = "write"
  /\ UNCHANGED <<doc, file, err, threat_sources, i, locations, wtr, run, prev>>

\* Line 112: the last record is done.
EndLoop ==
  /\ pc = "loop"
  /\ ~HasNext
  /\ pc' = "write"
  /\ UNCHANGED <<doc, file, err, threat_sources, i, locations, wtr, run, prev>>

\* Lines 115-123: the map is consumed in the order its hasher gives, which
\* the program does not fix; each entry goes to the writer's buffer.  A
\* buffer with no room left for the record is written to the file first
\* (the sizes of buffer and records are not modelled: either may happen).
WriteRow ==
  /\ pc = "write"
  /\ \E key \in DOMAIN locations, spills \in BOOLEAN :
       /\ file' = IF spills THEN Flushed(file, wtr) ELSE file
       /\ wtr' = [wtr EXCEPT !.buf = Append(IF spills THEN <<>> ELSE @,
                                            Row(key, locations[key]))]
       /\ locations' = [k \in DOMAIN locations \ {key} |-> locations[k]]
  /\ UNCHANGED <<doc, pc, err, threat_sources, i, run, prev>>

\* Line 125.
FlushOk ==
  /\ pc = "write"
  /\ DOMAIN locations = {}
  /\ file' = Flushed(file, wtr)
  /\ wtr' = NoWriter
  /\ pc' = "done"
  /\ UNCHANGED <<doc, err, threat_sources, i, locations, run, prev>>

\* Line 125 fails: some leading part of the buffer may have reached the
\* file (what a failed run leaves in the file is not specified further).
FlushErr ==
  /\ pc = "write"
  /\ DOMAIN locations = {}
  /\ \E n \in 0..Len(wtr.buf) :
       file' = [file EXCEPT !.rows = @ \o SubSeq(wtr.buf, 1, n)]
  /\ wtr' = NoWriter
  /\ err' = "flush locations.csv"
  /\ pc' = "failed"
  /\ UNCHANGED <<doc, threat_sources, i, locations, run, prev>>

\* After a run that succeeded, the program is started again on the same
\* document and database.
Rerun ==
  /\ pc = "done"
  /\ run = 1
  /\ run' = 2
  /\ prev' = [pc |-> pc, rows |-> file.rows]
  /\ pc' = "read_input"
  /\ err' = "none"
  /\ threat_sources' = NoSources
  /\ i' = 0
  /\ locations' = NoLocations
  /\ wtr' = NoWriter
  /\ UNCHANGED <<doc, file>>

Next ==
  \/ ReadInputOk \/ ReadInputErr
  \/ OpenDbOk \/ OpenDbErr
  \/ CreateCsvOk \/ CreateCsvErr
  \/ SkipRecord \/ AggregateRecord \/ AggregateWrapping
  \/ PanicOverflow \/ PanicIndex
  \/ EndLoop \/ WriteRow \/ FlushOk \/ FlushErr

Spec == Init /\ [][Next]_vars

NextTwice == Next \/ Rerun

SpecTwice == Init /\ [][NextTwice]_vars

\* ------------------------------------------------------------- properties
\* What the properties are stated in: the document and the database read
\* directly, not through the resolver or the map.

HasEn(x) == x.some /\ x.val.names.some /\ "en" \in DOMAIN x.val.names.val

\* The record of string s is one the run must skip.
SoftSkip(s) ==
  \/ s \notin IpStrings
  \/ s \notin DOMAIN Db
  \/ ~HasEn(Db[s].city)
  \/ ~HasEn(Db[s].country)
  \/ ~Db[s].location.some
  \/ ~Db[s].location.val.latitude.some
  \/ ~Db[s].location.val.longitude.some

\* The (Lat, Lon) fields of the row a record of string s belongs to.
PlaceOf(s) ==
  <<Format5(Db[s].location.val.latitude.val),
    Format5(Db[s].location.val.longitude.val)>>

\* The indices, among the first n of Source, of the records that resolve.
Resolved(n) == {j \in 1..n : ~SoftSkip(doc.Source[j])}

\* Those of them at place p.
Group(p, n) == {j \in Resolved(n) : PlaceOf(doc.Source[j]) = p}

Places(n) == {PlaceOf(doc.Source[j]) : j \in Resolved(n)}

Min(J) == CHOOSE j \in J : \A k \in J : j <= k

\* The mathematical sum of Count[j] over j in J (hi limb unbounded).
RECURSIVE ExactSum(_)
ExactSum(J) ==
  IF J = {} THEN <<0, 0>>
  ELSE LET j == Min(J) IN ExactAdd(doc.Count[j], ExactSum(J \ {j}))

Fits(n) == n[1] < Limb

Mod32(n) == <<n[1] % Limb, n[2]>>

\* The decimal digits of a limb pair of any size.
RECURSIVE Decimal(_)
Decimal(n) ==
  LET t == (n[1] % 10) * Limb + n[2]
      q == <<n[1] \div 10, t \div 10>>
  IN  IF q = <<0, 0>> THEN Digit(t % 10) ELSE Decimal(q) \o Digit(t % 10)

Place(row) == <<row[4], row[5]>>

DataRows(rows) == IF rows = <<>> THEN <<>> ELSE Tail(rows)

Times(rows, r) == Cardinality({j \in DOMAIN rows : rows[j] = r})

LoopStep == pc = "loop" /\ pc' = "loop" /\ i' = i + 1

\* The records handed to the writer since it was created: those already in
\* the file, then those in its buffer.
Written == file.rows \o wtr.buf

\* The names of the first record, in Source order, among the first n that
\* resolved to place p.
FirstNames(p, n) ==
  LET first == Db[doc.Source[Min(Group(p, n))]]
  IN  <<first.city.val.names.val["en"], first.country.val.names.val["en"]>>

\* What the Count field of a row holds, given the exact sum of its group.
RowCountIs(row, n) ==
  LET sum == ExactSum(Group(Place(row), n))
  IN  /\ Fits(sum) => row[3] = Decimal(sum)
      /\ ~Fits(sum) => row[3] = Decimal(Mod32(sum)) /\ row[3] # Decimal(sum)

\* C1: after a run that ends successfully the output holds exactly one data
\* row per distinct (Lat, Lon) key of the records that resolved, no two data
\* rows share a (Lat, Lon) pair, and the Count field of each row is the sum
\* of Count[j] over exactly the resolved records j of that key.
C1_OneRowPerKeyWithTheSum ==
  pc = "done" =>
    LET n    == Len(doc.Source)
        data == DataRows(file.rows)
    IN  /\ Len(data) = Cardinality(Places(n))
        /\ \A a, b \in DOMAIN data : a # b => Place(data[a]) # Place(data[b])
        /\ \A p \in Places(n) :
             \E a \in DOMAIN data :
               /\ Place(data[a]) = p
               /\ data[a][3] = Decimal(ExactSum(Group(p, n)))

\* C2: while records are processed no aggregate is removed and none has its
\* city_name or country_name changed; every aggregate, and every row
\* written from it, carries the names of the first record in Source order
\* that resolved to its key.
C2_NamesOfFirstWriter ==
  /\ [](pc \in {"loop", "write"} =>
          /\ pc = "loop" =>
               {<<k.lat, k.lon>> : k \in DOMAIN locations} = Places(i)
          /\ \A k \in DOMAIN locations :
               <<locations[k].city_name, locations[k].country_name>>
                 = FirstNames(<<k.lat, k.lon>>, i)
          /\ \A a \in DOMAIN DataRows(Written) :
               LET row == DataRows(Written)[a]
               IN  <<row[1], row[2]>> = FirstNames(Place(row), i))
  /\ [](pc = "done" =>
          \A a \in DOMAIN DataRows(file.rows) :
            LET row == DataRows(file.rows)[a]
            IN  <<row[1], row[2]>> = FirstNames(Place(row), Len(doc.Source)))
  /\ [][pc = "loop" =>
          \A k \in DOMAIN locations :
            /\ k \in DOMAIN locations'
            /\ locations'[k].city_name = locations[k].city_name
            /\ locations'[k].country_name = locations[k].country_name]_vars

\* The aggregate of a key that two records with different names reached.
C2_Witness ==
  /\ pc = "done"
  /\ doc.Source = <<"8.8.4.4", "8.8.8.8">>
  /\ Len(file.rows) = 2
  /\ file.rows[2][1] = "Sunnyvale"
  /\ file.rows[2][2] = "USA"
  /\ file.rows[2][4] = "37.40599"
  /\ file.rows[2][5] = "-122.07845"

\* C3: a record whose IP string does not parse, whose lookup fails, or whose
\* result lacks an "en" city name, an "en" country name, a latitude or a
\* longitude leaves the map, the writer, the file and the error state as
\* they are and moves the loop to the next record; skipped records alone
\* never end the run in a panic.
C3_SkipIsSilent ==
  /\ [][(pc = "loop" /\ HasNext /\ SoftSkip(doc.Source[i + 1])) =>
          /\ LoopStep
          /\ UNCHANGED <<locations, wtr, file, err, threat_sources>>]_vars
  /\ [](pc = "panicked" => Resolved(i + 1) # {})

\* A run over skipped records only, one that does not parse and one without
\* a country name, that ended successfully.
C3_Witness ==
  /\ pc = "done"
  /\ doc.Source = <<"not-an-ip", "198.51.100.2">>
  /\ file.rows = <<Header>>

\* C4: the count a resolved record adds to the map is the element of Count
\* at the record's own position in the full Source array, whatever records
\* were skipped before it.
C4_CountAtSameIndex ==
  [][(pc = "loop" /\ locations' # locations) =>
       LET s == doc.Source[i + 1]
           c == doc.Count[i + 1]
           k == [lat |-> PlaceOf(s)[1], lon |-> PlaceOf(s)[2]]
       IN  /\ ~SoftSkip(s)
           /\ k \in DOMAIN locations'
           /\ locations'[k].total_count =
                IF k \in DOMAIN locations
                THEN Mod32(ExactAdd(locations[k].total_count, c))
                ELSE c
           /\ \A o \in DOMAIN locations' \ {k} :
                o \in DOMAIN locations /\ locations'[o] = locations[o]]_vars

\* A skipped record first, then a record whose count differs from the
\* first one's: the second count is the one in the map.
C4_Witness ==
  /\ pc = "write"
  /\ doc.Source = <<"192.0.2.1", "8.8.8.8">>
  /\ doc.Count = <<<<0, 1>>, <<0, 2>>>>
  /\ \E k \in DOMAIN locations : locations[k].total_count = <<0, 2>>

\* C5: when the input file is missing, is not JSON, has no "Threat Sources"
\* section or a section of another structure, the run fails with an error
\* before anything else happens: the output file is neither created nor
\* truncated nor written, no writer is opened and no record is reached.
C5_BadInputIsFatal ==
  /\ [](doc.kind # "ok" =>
          /\ pc \in {"read_input", "failed"}
          /\ pc = "failed" => err # "none"
          /\ ~wtr.open
          /\ i = 0
          /\ locations = NoLocations)
  /\ [][doc.kind # "ok" => file' = file]_vars

\* A run on a document of the wrong structure has failed, the stale output
\* file still as it was.
C5_Witness ==
  /\ doc.kind = "badstruct"
  /\ pc = "failed"
  /\ file = [exists |-> TRUE, rows |-> <<StaleRow>>]

\* C6: a run that ends successfully leaves an output that holds nothing from
\* before the run, whose first row is the header, which holds the header
\* once, and whose other rows are the rows of this run's groups; when no
\* record resolved (no records at all, or every record skipped) the output
\* is the header row alone.
C6_HeaderOnceOnFreshOutput ==
  pc = "done" =>
    LET n == Len(doc.Source)
    IN  /\ file.exists
        /\ file.rows # <<>>
        /\ file.rows[1] = Header
        /\ Times(file.rows, Header) = 1
        /\ \A a \in DOMAIN DataRows(file.rows) :
             Place(DataRows(file.rows)[a]) \in Places(n)
        /\ Resolved(n) = {} => file.rows = <<Header>>

\* The empty document, run to its end.
C6_Witness ==
  /\ pc = "done"
  /\ doc.Source = <<>>
  /\ doc.Count = <<>>
  /\ file.rows = <<Header>>

\* C7: a second successful run on the same document and database leaves the
\* same rows as the first, each as often, in whatever order each run
\* iterated its map.
C7_SameRowsOnRerun ==
  (run = 2 /\ pc = "done") =>
    /\ Len(file.rows) = Len(prev.rows)
    /\ \A a \in DOMAIN file.rows :
         Times(file.rows, file.rows[a]) = Times(prev.rows, file.rows[a])

\* Two runs that wrote their two groups in different orders.
C7_Witness ==
  /\ run = 2
  /\ pc = "done"
  /\ Len(file.rows) = 3
  /\ file.rows # prev.rows

\* C8 as claimed: the writer does nothing, header included, until every
\* record has been resolved and aggregated; no record is processed once the
\* writer has started; each aggregate is written once before the flush.
C8_WriterIdleUntilAggregated ==
  /\ pc \in {"read_input", "open_db", "create_csv", "loop"} =>
       ~wtr.open /\ wtr.buf = <<>>
  /\ pc \in {"write", "done"} => i = Len(doc.Source)
  /\ pc = "done" =>
       /\ Len(DataRows(file.rows)) = Cardinality(Places(Len(doc.Source)))
       /\ {Place(DataRows(file.rows)[a]) : a \in DOMAIN DataRows(file.rows)}
            = Places(Len(doc.Source))

\* C8 as the program runs: the loader comes first; the output is created
\* and its header handed to the writer before the first record is
\* resolved; no data row is written, and nothing reaches the file, while
\* records are processed; once rows are written no record is processed;
\* each aggregate is written exactly once, then the buffer is flushed.
C8_StagesInOrder ==
  /\ [](pc \in {"read_input", "open_db", "create_csv"} =>
          ~wtr.open /\ wtr.buf = <<>> /\ i = 0 /\ locations = NoLocations)
  /\ [](pc = "loop" =>
          wtr.open /\ wtr.buf = <<Header>> /\ file.rows = <<>>)
  /\ [](pc = "write" =>
          LET data    == DataRows(Written)
              written == {Place(data[a]) : a \in DOMAIN data}
              left    == {<<k.lat, k.lon>> : k \in DOMAIN locations}
          IN  /\ i = Len(doc.Source)
              /\ wtr.open /\ Written[1] = Header
              /\ Cardinality(written) = Len(data)
              /\ written \cap left = {}
              /\ written \cup left = Places(i))
  /\ [](pc = "done" =>
          LET data == DataRows(file.rows)
          IN  /\ i = Len(doc.Source)
              /\ Len(data) = Cardinality(Places(i))
              /\ {Place(data[a]) : a \in DOMAIN data} = Places(i))
  /\ [][pc = "write" => (i' = i /\ pc' \in {"write", "done", "failed"})]_vars

\* Two aggregates, one written and one still in the map.
C8_Witness ==
  /\ pc = "write"
  /\ Len(Written) = 2
  /\ Cardinality(DOMAIN locations) = 1

\* C9: totals are u32: a group's total, in the map and in its row, is the
\* exact sum of its counts when that sum is at most 2^32 - 1; when it is
\* more, the run either panics without a data row in the file or goes on
\* with the sum modulo 2^32, and the row it emits does not hold the sum.
C9_U32Accumulation ==
  /\ pc = "loop" =>
       \A k \in DOMAIN locations :
         LET sum == ExactSum(Group(<<k.lat, k.lon>>, i))
         IN  /\ Fits(sum) => locations[k].total_count = sum
             /\ ~Fits(sum) => locations[k].total_count = Mod32(sum)
  /\ pc = "write" =>
       \A a \in DOMAIN DataRows(Written) :
         RowCountIs(DataRows(Written)[a], i)
  /\ pc = "done" =>
       \A a \in DOMAIN DataRows(file.rows) :
         RowCountIs(DataRows(file.rows)[a], i)
  /\ pc = "panicked" => DataRows(file.rows) = <<>>
  /\ (pc = "panicked" /\ err = "attempt to add with overflow") =>
       ~Fits(ExactSum(Group(PlaceOf(doc.Source[i + 1]), i + 1)))

\* 4294967295 + 2 in one group, emitted as 1.
C9_Witness ==
  /\ pc = "done"
  /\ doc.Count = <<U32Max, <<0, 2>>>>
  /\ Len(file.rows) = 2
  /\ file.rows[2][3] = "1"

\* C10: a document whose arrays differ in length loads.  With Count the
\* longer one the surplus counts reach no row.  With Source the longer one,
\* skipped records past the end of Count do no harm, and the first record
\* past it that resolves ends the run in a panic, the output file created
\* and holding at most the header, so that no run of such a document ever
\* writes a data row.
C10_LengthsMayDiffer ==
  /\ doc.kind = "ok" =>
       err \notin {"open threat_sources.json", "parse json",
                   "deserialize ThreatSources"}
  /\ err = "index out of bounds" =>
       /\ pc = "panicked"
       /\ i >= Len(doc.Count)
       /\ ~SoftSkip(doc.Source[i + 1])
       /\ \A j \in (Len(doc.Count) + 1)..i : SoftSkip(doc.Source[j])
       /\ file.exists
       /\ file.rows \in {<<>>, <<Header>>}
  /\ pc \in {"write", "done"} =>
       \A j \in Resolved(Len(doc.Source)) : j <= Len(doc.Count)
  /\ (pc = "done" /\ Len(doc.Count) > Len(doc.Source)) =>
       \A a \in DOMAIN DataRows(file.rows) :
         LET row == DataRows(file.rows)[a]
         IN  row[3] = Decimal(Mod32(ExactSum(Group(Place(row), Len(doc.Source)))))

\* No count at all, a skipped record, then one that resolves: the panic,
\* with the header flushed by the unwinding.
C10_Witness ==
  /\ pc = "panicked"
  /\ err = "index out of bounds"
  /\ doc.Count = <<>>
  /\ doc.Source = <<"not-an-ip", "8.8.8.8">>
  /\ file.rows = <<Header>>

====
